---- MODULE Spec2Model ----
(***************************************************************************)
(* A model of the playwright-ecommerce-test suite: the retry wrapper of    *)
(* BasePage, the scripted purchase flow of purchase-flow.spec.ts with the  *)
(* page objects it drives, the test runner's scheduling of test instances  *)
(* as configured in playwright.config.ts, and single calls of the page     *)
(* objects' and the data generator's methods.                              *)
(*                                                                         *)
(* Five specifications share the module's variables:                       *)
(*   RetrySpec      one call of BasePage.retryOperation                    *)
(*   Spec           one invocation of the purchase-flow test (hook + body) *)
(*   RunnerSpec     several test instances scheduled on worker processes   *)
(*   PageSpec       calls of page-object methods against a page            *)
(*   GeneratorSpec  calls of DataGenerator methods                         *)
(* Each leaves the variables of the others at their idle values.           *)
(***************************************************************************)
EXTENDS Integers, Sequences, FiniteSets

\* ------------------------------------------------------------------
\* Bounds of the model (not program constants).
\* ------------------------------------------------------------------

\* Largest maxRetries a call of retryOperation is given.
MaxRetriesBound == 4

\* Number of test instances (project x test) the runner schedules.
NumInstances == 2

\* The year in which the fixtures are generated (Date.now() inside faker).
GenerationYear == 2026

\* Viewport widths are taken up to this far on either side of the breakpoint.
WidthMargin == 2

\* Largest explicit argument given to generateRandomQuantity.
MaxArgument == 3
\* Milliseconds the clock can advance over a sequence of generateUniqueEmail calls.
MaxClock == 2
\* Calls of generateUniqueEmail in one sequence.
MaxEmails == 3

\* ------------------------------------------------------------------
\* Program constants.
\* ------------------------------------------------------------------

\* maxRetries: number = 3
DefaultMaxRetries == 3

\* waitForTimeout(1000 * (i + 1))
BaseDelay == 1000

\* generateRandomQuantity(1, 20) in the setup hook
QuantityMin == 1
QuantityMax == 20

\* retries: process.env.CI ? 2 : 1
RetriesInCI == 2
RetriesLocally == 1

\* viewport.width < 768
MobileBreakpoint == 768

\* generateRandomQuantity(min: number = 1, max: number = 20)
DefaultMin == 1
DefaultMax == 20

\* ------------------------------------------------------------------
\* State.
\* ------------------------------------------------------------------

\* BasePage.retryOperation
VARIABLES
  maxRetries,   \* the maxRetries argument
  loopIndex,    \* the loop variable i
  lastError,    \* let lastError: Error (Unassigned until the first catch)
  retryPc,      \* position in retryOperation ("idle": no call in progress)
  invocations,  \* history: the outcome of every invocation of operation, in order
  waits,        \* history: the argument of every waitForTimeout, in order
  retryResult,  \* the value retryOperation returned
  retryThrown   \* the value retryOperation threw

retryVars == <<maxRetries, loopIndex, lastError, retryPc, invocations, waits,
               retryResult, retryThrown>>

\* The purchase-flow test
VARIABLES
  pc,               \* the test-body statement to run next (0: the setup hook)
  status,           \* "running" | "passed" | "failed"
  failure,          \* [at, kind] of the statement that failed ([0, "none"] if none)
  executed,         \* history: the test-body statements started, in order
  passedExpects,    \* history: the statements whose expect(...) passed
  randomQuantity,   \* let randomQuantity: number (0: not assigned yet)
  hookQuantity,     \* history: what generateRandomQuantity returned in the hook
  quantityInput,    \* browser: the value of the #quantity field
  cartQuantityText, \* browser: the text of the first cart row's quantity button
  setQuantityArg,   \* history: the argument of setQuantity (0: not called)
  setQuantityOutcome, \* history: "none" | "returned" | "ValueMismatch" | "TimeoutError"
  setValue,         \* history: the value setQuantity read back
  fieldExpected,    \* history: the value the field was compared with (0: not yet)
  cartExpected,     \* history: the value the cart quantity was compared with
  userData,         \* const userData (NoUser before generateUserData())
  generatedUser,    \* history: the record generateUserData() returned
  generated,        \* history: number of generateUserData() calls
  loginTyped,       \* history: arguments of LoginPage.fillSignupForm
  signupFields,     \* browser: the pre-populated name and email of the signup form
  validateExpected, \* history: arguments of SignUpPage.validateNameAndEmail
  signupArg,        \* history: the record passed to SignUpPage.fillSignupForm
  paymentArg,       \* history: arguments of PaymentPage.fillPaymentForm
  paymentSubmitted  \* history: the pay button was clicked

flowVars == <<pc, status, failure, executed, passedExpects, randomQuantity,
              hookQuantity, quantityInput, cartQuantityText, setQuantityArg,
              setQuantityOutcome, setValue, fieldExpected, cartExpected, userData,
              generatedUser, generated, loginTyped, signupFields, validateExpected,
              signupArg, paymentArg, paymentSubmitted>>

\* The test runner
VARIABLES
  ci,                  \* process.env.CI is set
  workerVariable,      \* per worker process: the describe-level randomQuantity
  workerTest,          \* per worker process: the test instance it runs (0: none)
  workerPc,            \* per worker process: position in the instance it runs
  testState,           \* per instance: "queued" | "running" | "passed" | "failed"
  attempts,            \* per instance: attempts started (0 again once it is over)
  hookWrote,           \* history, per instance: what its setup hook stored
  passedToSetQuantity, \* history, per instance: what it passed to setQuantity
  comparedWithCart     \* history, per instance: what it compared the cart with

runnerVars == <<ci, workerVariable, workerTest, workerPc, testState, attempts,
                hookWrote, passedToSetQuantity, comparedWithCart>>

\* A call of a page-object method
VARIABLES
  call,          \* the method called last ("none": no call yet)
  env,           \* what the page and the caller presented to that call
  events,        \* history: what the call did to the page, in order
  outcome,       \* "none" | "returned" | "thrown"
  returnedBool,  \* the boolean it returned (FALSE when it returned none)
  returnedText,  \* the text it returned (empty when it returned none)
  thrown         \* the error it threw ("none" when it returned)

pageVars == <<call, env, events, outcome, returnedBool, returnedText, thrown>>

\* Calls of DataGenerator methods
VARIABLES
  minArg,            \* the min argument of generateRandomQuantity (Omitted: default)
  maxArg,            \* the max argument of generateRandomQuantity (Omitted: default)
  quantityOutcome,   \* "none" | "returned" | "thrown", of the last call
  quantityReturned,  \* what the last call returned
  quantityThrown,    \* what the last call threw ("none" when it returned)
  sawMin,            \* history: some call returned the lower bound
  sawMax,            \* history: some call returned the upper bound
  chosenGenre,       \* the gender token the last generateUserData() drew
  generatedRecord,   \* what the last generateUserData() returned
  generatedAt,       \* the date at which the last date-based generator call ran
  generatedCard,     \* what the last generateCreditCard() returned
  generatedBirth,    \* what the last generateDateOfBirth() returned
  clock,             \* Date.now(), in milliseconds since the first call
  issuedEmails       \* what the generateUniqueEmail() calls returned, in call order

generatorVars == <<minArg, maxArg, quantityOutcome, quantityReturned, quantityThrown,
                   sawMin, sawMax, chosenGenre, generatedRecord,
                   generatedAt, generatedCard, generatedBirth, clock, issuedEmails>>

vars == <<retryVars, flowVars, runnerVars, pageVars, generatorVars>>

\* ==================================================================
\* BasePage.retryOperation
\* ==================================================================

\* A declared but never assigned `let` holds undefined.
Unassigned == "undefined"

\* What an invocation of the wrapped operation can raise / return.
Errors == {"TimeoutError", "InteractionError"}
Values == {"value-a", "value-b"}

\* The arguments retryOperation is called with: safeClick and
\* waitForElementWithRetry use the default, other callers may pass any number.
RetryArguments == (-1 .. MaxRetriesBound) \cup {DefaultMaxRetries}

\* 1000 * (i + 1)
BackoffConstant(i) == BaseDelay
BackoffDoubling(i) == BaseDelay * (2 ^ i)
Backoff(i) == BaseDelay * (i + 1)

\* lastError = error as Error
CaughtErrorFirst(previous, error) == IF previous = Unassigned THEN error ELSE previous
CaughtError(previous, error) == error

\* if (i < maxRetries - 1)
WaitsAfterFailureAlways(i, n) == TRUE
WaitsAfterFailure(i, n) == i < n - 1

\* for (...; i < maxRetries; ...)
LoopContinuesOneMore(i, n) == i <= n
LoopContinues(i, n) == i < n

\* A call of retryOperation starts.
RetryCalled ==
  /\ maxRetries \in RetryArguments
  /\ loopIndex = 0
  /\ lastError = Unassigned
  /\ retryPc = "loop"
  /\ invocations = <<>>
  /\ waits = <<>>
  /\ retryResult = Unassigned
  /\ retryThrown = Unassigned

\* No call of retryOperation is in progress.
RetryIdle ==
  /\ maxRetries = DefaultMaxRetries
  /\ loopIndex = 0
  /\ lastError = Unassigned
  /\ retryPc = "idle"
  /\ invocations = <<>>
  /\ waits = <<>>
  /\ retryResult = Unassigned
  /\ retryThrown = Unassigned

\* for (let i = 0; i < maxRetries; i++): the loop test.
RetryLoopTest ==
  /\ retryPc = "loop"
  /\ retryPc' = IF LoopContinues(loopIndex, maxRetries) THEN "try" ELSE "throw"
  /\ UNCHANGED <<maxRetries, loopIndex, lastError, invocations, waits,
                 retryResult, retryThrown, flowVars, runnerVars,
                 pageVars, generatorVars>>

\* return await operation();  -- the operation resolves.
RetryOperationResolves ==
  /\ retryPc = "try"
  /\ \E v \in Values :
       /\ invocations' = Append(invocations, [ok |-> TRUE, value |-> v])
       /\ retryResult' = v
  /\ retryPc' = "returned"
  /\ UNCHANGED <<maxRetries, loopIndex, lastError, waits, retryThrown, flowVars, runnerVars,
                 pageVars, generatorVars>>

\* catch (error) { lastError = error; ...; if (i < maxRetries - 1) ... }
\* -- the operation rejects.
RetryOperationRejects ==
  /\ retryPc = "try"
  /\ \E e \in Errors :
       /\ invocations' = Append(invocations, [ok |-> FALSE, value |-> e])
       /\ lastError' = CaughtError(lastError, e)
  /\ IF WaitsAfterFailure(loopIndex, maxRetries)
       THEN /\ retryPc' = "wait"
            /\ UNCHANGED loopIndex
       ELSE /\ retryPc' = "loop"
            /\ loopIndex' = loopIndex + 1
  /\ UNCHANGED <<maxRetries, waits, retryResult, retryThrown, flowVars, runnerVars,
                 pageVars, generatorVars>>

\* await this.page.waitForTimeout(1000 * (i + 1)); then i++.
RetryWait ==
  /\ retryPc = "wait"
  /\ waits' = Append(waits, Backoff(loopIndex))
  /\ loopIndex' = loopIndex + 1
  /\ retryPc' = "loop"
  /\ UNCHANGED <<maxRetries, lastError, invocations, retryResult, retryThrown,
                 flowVars, runnerVars,
                 pageVars, generatorVars>>

\* throw lastError!;
RetryThrow ==
  /\ retryPc = "throw"
  /\ retryThrown' = lastError
  /\ retryPc' = "thrown"
  /\ UNCHANGED <<maxRetries, loopIndex, lastError, invocations, waits, retryResult,
                 flowVars, runnerVars,
                 pageVars, generatorVars>>

\* ==================================================================
\* DataGenerator (utils/data-generator.ts)
\* ==================================================================

\* faker.number.int({ min, max }): the set of values a call may return.
generateRandomQuantityFromZero(min, max) == 0 .. max
generateRandomQuantityPastMax(min, max) == min .. (max + 1)
generateRandomQuantity(min, max) == min .. max

\* faker.person.firstName(genre), faker.person.lastName(): small name pools.
FirstNames(genre) == IF genre = "male" THEN {"James"} ELSE {"Mary"}
LastNames == {"Smith"}

\* faker.internet.email({ firstName, lastName }): the address the library
\* builds from the names, before lower-casing (separator and provider vary).
FakerEmails(firstName, lastName) ==
  { firstName \o "." \o lastName \o "@Example.com",
    firstName \o "_" \o lastName \o "@Example.com" }

\* String.prototype.toLowerCase on the strings the model uses.
toLowerCase(s) ==
  CASE s = "James.Smith@Example.com" -> "james.smith@example.com"
    [] s = "James_Smith@Example.com" -> "james_smith@example.com"
    [] s = "Mary.Smith@Example.com"  -> "mary.smith@example.com"
    [] s = "Mary_Smith@Example.com"  -> "mary_smith@example.com"
    [] OTHER -> s

\* A date is a record [year, month, day]; month is what Date.getMonth()
\* returns, 0 for January to 11 for December.
Months0 == 0 .. 11

\* The days of the month the model distinguishes.
Days == {1, 28}

NoInstant == [year |-> 0, month |-> 0, day |-> 0]

\* The dates at which a generator call can run: in January, July or December
\* of the generation year.
GenerationMonths == {0, 6, 11}

GenerationInstants == [year : {GenerationYear}, month : GenerationMonths, day : Days]

\* a is an earlier date than b
Before(a, b) ==
  \/ a.year < b.year
  \/ a.year = b.year /\ a.month < b.month
  \/ a.year = b.year /\ a.month = b.month /\ a.day < b.day

addYears(d, n) == [d EXCEPT !.year = @ + n]

\* faker.date.future(): a date after now and at most one year after now.
dateFuture(now) ==
  { d \in [year : now.year .. now.year + 1, month : Months0, day : Days] :
      ~Before(d, now) /\ ~Before(addYears(now, 1), d) }

\* generateCreditCard(): month and year come from two independent
\* faker.date.future() draws.
generateCreditCardAt(now) ==
  { [number |-> "4111111111111111", cvv |-> "123",
     expiryMonth |-> d1.month + 1, expiryYear |-> d2.year] :
       d1 \in dateFuture(now), d2 \in dateFuture(now) }

generateCreditCard == UNION { generateCreditCardAt(now) : now \in GenerationInstants }

NoCard == [number |-> "", cvv |-> "", expiryMonth |-> 0, expiryYear |-> 0]

\* title: genre === 'male' ? 'Mr' : 'Mrs'
TitleAlwaysMr(genre) == "Mr"
Title(genre) == IF genre = "male" THEN "Mr" ELSE "Mrs"

\* The record generateUserData() returns for one choice of its random draws
\* (the fields the purchase flow reads).
UserDataFor(genre, firstName, lastName, email, creditCard) ==
  [name        |-> firstName \o " " \o lastName,
   email       |-> toLowerCase(email),
   title       |-> Title(genre),
   firstName   |-> firstName,
   lastName    |-> lastName,
   cardNumber  |-> creditCard.number,
   cvv         |-> creditCard.cvv,
   expiryMonth |-> creditCard.expiryMonth,
   expiryYear  |-> creditCard.expiryYear]

\* generateUserData(): genre, then a first name for that genre, a last name,
\* an email built from both names, and a credit card.
generateUserData ==
  UNION { UNION { UNION { { UserDataFor(genre, firstName, lastName, email, creditCard) :
                              email \in FakerEmails(firstName, lastName),
                              creditCard \in generateCreditCard } :
                          lastName \in LastNames } :
                  firstName \in FirstNames(genre) } :
          genre \in {"male", "female"} }

\* ==================================================================
\* Number <-> text conversions used by the page objects and the flow
\* ==================================================================

\* A text is a sequence of one-character strings.
DigitChars == <<"0", "1", "2", "3", "4", "5", "6", "7", "8", "9">>

IsDigit(c) == \E d \in 1 .. 10 : DigitChars[d] = c

DigitValue(c) == (CHOOSE d \in 1 .. 10 : DigitChars[d] = c) - 1

\* Number.prototype.toString() for the non-negative integers of the model.
RECURSIVE toString(_)
toString(n) ==
  IF n < 10 THEN <<DigitChars[n + 1]>>
  ELSE toString(n \div 10) \o <<DigitChars[(n % 10) + 1]>>

\* parseInt's NaN, as a number no text of the model parses to.
NaN == 0 - 1

Whitespace == {" ", "\t", "\n"}

\* parseInt(text, 10): leading whitespace is skipped; the value of the longest
\* run of digits that follows, NaN when no digit follows.
RECURSIVE parseDigits(_, _, _)
parseDigits(text, k, acc) ==
  IF k > Len(text) \/ ~IsDigit(text[k]) THEN acc
  ELSE parseDigits(text, k + 1, 10 * acc + DigitValue(text[k]))

parseInt(text) ==
  LET inked == {k \in 1 .. Len(text) : text[k] \notin Whitespace}
      start == IF inked = {} THEN Len(text) + 1
               ELSE CHOOSE k \in inked : \A j \in inked : k <= j
  IN IF start > Len(text) \/ ~IsDigit(text[start]) THEN NaN
     ELSE parseDigits(text, start, 0)


\* What locator.textContent() yields for a node without text: null.
NullText == <<"null">>

\* String.prototype.trim()
trim(text) ==
  LET inked == {k \in 1 .. Len(text) : text[k] \notin Whitespace}
  IN IF inked = {} THEN <<>>
     ELSE SubSeq(text, CHOOSE k \in inked : \A j \in inked : k <= j,
                       CHOOSE k \in inked : \A j \in inked : k >= j)

\* String.prototype.includes(pattern)
includes(text, pattern) ==
  \E k \in 0 .. Len(text) - Len(pattern) :
    SubSeq(text, k + 1, k + Len(pattern)) = pattern
\* ==================================================================
\* The purchase flow (tests/e2e/purchase-flow.spec.ts)
\* ==================================================================

NoUser ==
  [name |-> "", email |-> "", title |-> "", firstName |-> "", lastName |-> "",
   cardNumber |-> "", cvv |-> "", expiryMonth |-> 0, expiryYear |-> 0]

NoCredentials == [name |-> "", email |-> ""]

NoPayment == [name |-> "", cardNumber |-> "", cvc |-> "", month |-> <<>>, year |-> <<>>]

NoFailure == [at |-> 0, kind |-> "none"]

\* One row per statement of the test body, in program order.
\*   line    where the statement starts in purchase-flow.spec.ts
\*   page    the page object whose method is called ("none": no page object)
\*   kind    "open"    goto of the first page
\*           "gate"    a readiness wait (waitForXPage; HomePage, which declares
\*                     no such method, is checked with isLoaded)
\*           "query"   a value is read
\*           "action"  a user gesture
\*           "data"    a fixture is generated
\*   stage   the stage of the flow the statement belongs to (the source's
\*           STEP comments; STEP 10 and 11 hold two stages each)
\*   expect  the statement's result is asserted with expect(...)
\*   throws  the call can reject (FALSE: the method catches every error)
S(line, page, method, kind, stage, expect, throws) ==
  [line |-> line, page |-> page, method |-> method, kind |-> kind,
   stage |-> stage, expect |-> expect, throws |-> throws]

Flow == <<
  S( 56, "HomePage", "navigate", "open", "Home", FALSE, TRUE),
  S( 58, "HomePage", "isLoaded", "gate", "Home", TRUE, FALSE),
  S( 64, "HomePage", "navigateToProducts", "action", "Products", FALSE, TRUE),
  S( 68, "ProductsPage", "waitForProductsPage", "gate", "Products", FALSE, TRUE),
  S( 71, "ProductsPage", "hasCorrectTitle", "query", "Products", TRUE, TRUE),
  S( 75, "ProductsPage", "getProductCount", "query", "Products", TRUE, TRUE),
  S( 79, "ProductsPage", "getProductName", "query", "Products", TRUE, TRUE),
  S( 85, "ProductsPage", "viewThirdProduct", "action", "ProductDetail", FALSE, TRUE),
  S( 89, "ProductDetailPage", "waitForProductDetailPage", "gate", "ProductDetail", FALSE, TRUE),
  S( 92, "ProductDetailPage", "getProductName", "query", "ProductDetail", TRUE, TRUE),
  S(100, "ProductDetailPage", "setQuantity", "action", "ProductDetail", FALSE, TRUE),
  S(103, "ProductDetailPage", "getCurrentQuantity", "query", "ProductDetail", TRUE, TRUE),
  S(107, "ProductDetailPage", "addToCart", "action", "ProductDetail", FALSE, TRUE),
  S(110, "ProductDetailPage", "isSuccessModalVisible", "query", "ProductDetail", TRUE, FALSE),
  S(115, "ProductDetailPage", "clickViewCart", "action", "Cart", FALSE, TRUE),
  S(119, "CartPage", "waitForCartPage", "gate", "Cart", FALSE, TRUE),
  S(122, "CartPage", "getCartItemCount", "query", "Cart", TRUE, FALSE),
  S(126, "CartPage", "getItemQuantity", "query", "Cart", TRUE, TRUE),
  S(133, "CartPage", "proceedToCheckout", "action", "Cart", FALSE, TRUE),
  S(136, "CartPage", "isRegisterLoginModalVisible", "query", "Cart", TRUE, FALSE),
  S(144, "none", "screenshot", "action", "Cart", FALSE, TRUE),
  S(150, "CartPage", "clickRegisterLogin", "action", "Cart", FALSE, TRUE),
  S(156, "LoginPage", "waitForLoginPage", "gate", "Login", FALSE, TRUE),
  S(159, "LoginPage", "getTitleSignUp", "query", "Login", TRUE, TRUE),
  S(163, "none", "generateUserData", "data", "Login", FALSE, FALSE),
  S(166, "LoginPage", "fillSignupForm", "action", "Login", FALSE, TRUE),
  S(172, "SignUpPage", "waitForSignUpPage", "gate", "SignUp", FALSE, TRUE),
  S(175, "SignUpPage", "getTitleSignUpPage", "query", "SignUp", TRUE, TRUE),
  S(179, "SignUpPage", "validateNameAndEmail", "query", "SignUp", TRUE, TRUE),
  S(183, "SignUpPage", "fillSignupForm", "action", "SignUp", FALSE, TRUE),
  S(189, "AccountCreatedPage", "waitForAccountCreatedPage", "gate", "AccountCreated", FALSE, TRUE),
  S(192, "AccountCreatedPage", "getAccountCreatedTitle", "query", "AccountCreated", TRUE, TRUE),
  S(196, "AccountCreatedPage", "clickContinue", "action", "AccountCreated", FALSE, TRUE),
  S(200, "HomePage", "navigateToCart", "action", "Cart", FALSE, TRUE),
  S(201, "CartPage", "proceedToCheckout", "action", "Cart", FALSE, TRUE),
  S(205, "CheckoutPage", "clickPlaceOrderButton", "action", "Checkout", FALSE, TRUE),
  S(213, "PaymentPage", "fillPaymentForm", "action", "Payment", FALSE, TRUE),
  S(222, "PaymentPage", "getSuccessfulMessage", "query", "OrderPlaced", TRUE, TRUE)
>>

NumStatements == Len(Flow)

\* The position in Flow of the statement that starts at a source line.
StatementAt(line) == CHOOSE k \in 1 .. Len(Flow) : Flow[k].line = line

\* The statements modelled by an action of their own; every other statement
\* is run by the three Statement... actions.
SetQuantityAt == StatementAt(100)
GetCurrentQuantityAt == StatementAt(103)
AddToCartAt == StatementAt(107)
GetItemQuantityAt == StatementAt(126)
GenerateUserDataAt == StatementAt(163)
LoginFillSignupFormAt == StatementAt(166)
ValidateNameAndEmailAt == StatementAt(179)
SignUpFillSignupFormAt == StatementAt(183)
FillPaymentFormAt == StatementAt(213)

OwnAction ==
  {SetQuantityAt, GetCurrentQuantityAt, AddToCartAt, GetItemQuantityAt,
   GenerateUserDataAt, LoginFillSignupFormAt, ValidateNameAndEmailAt,
   SignUpFillSignupFormAt, FillPaymentFormAt}

\* The test body is straight-line code: after statement k comes k + 1.
NextStatementSkipsLogin(k) == IF k = StatementAt(150) THEN StatementAt(172) ELSE k + 1
NextStatement(k) == k + 1

\* The test body holds no try/catch: a rejected call or a failed expect at
\* any statement leaves the test.
PropagatesExceptScreenshot(k) == k # StatementAt(144)
Propagates(k) == TRUE

\* ------------------------------------------------------------------
\* Page-object and flow helpers.
\* ------------------------------------------------------------------

controlVars == <<pc, status, failure, executed, passedExpects>>

quantityVars == <<randomQuantity, hookQuantity, quantityInput, cartQuantityText,
                  setQuantityArg, setQuantityOutcome, setValue, fieldExpected,
                  cartExpected>>

userVars == <<userData, generatedUser, generated, loginTyped, signupFields,
              validateExpected, signupArg, paymentArg, paymentSubmitted>>

\* The test body is at statement k.
At(k) == status = "running" /\ pc = k /\ k \in 1 .. NumStatements

\* Statement k completed (its expect, if any, passed): on to the next one.
Advance(k) ==
  /\ executed' = Append(executed, k)
  /\ passedExpects' = IF Flow[k].expect THEN passedExpects \cup {k} ELSE passedExpects
  /\ pc' = NextStatement(k)
  /\ status' = IF NextStatement(k) > NumStatements THEN "passed" ELSE "running"
  /\ UNCHANGED failure

\* Statement k rejected or its expect failed.
Abort(k, kind) ==
  /\ executed' = Append(executed, k)
  /\ failure' = IF failure.at = 0 THEN [at |-> k, kind |-> kind] ELSE failure
  /\ IF Propagates(k)
       THEN /\ status' = "failed"
            /\ UNCHANGED pc
       ELSE /\ pc' = NextStatement(k)
            /\ status' = IF NextStatement(k) > NumStatements THEN "passed" ELSE "running"
  /\ UNCHANGED passedExpects

\* BasePage.getTextContent: return await locator.textContent() || ''
getTextContentTrimmed(text) == IF text = NullText THEN <<>> ELSE trim(text)
getTextContent(text) == IF text = NullText \/ text = <<>> THEN <<>> ELSE text

\* What the #quantity field holds after clear() and fill(text): the text, or
\* what a page script made of it (nothing, or a zero-padded number).
FillOutcomes(text) == {text, <<>>, <<"0">> \o text}

\* setQuantity's check: setValue !== quantity.toString() throws.
QuantityMatchesNumerically(value, quantity) == parseInt(value) = quantity
QuantityMatches(value, quantity) == value = toString(quantity)

\* The quantity the site puts in the cart on "Add to cart": the field's, or
\* the default of one item.
SiteCartTexts(field) == {field, <<"1">>}

\* loginPage.fillSignupForm(userData.name, userData.email)
SignupCredentials(u) == [name |-> u.name, email |-> u.email]

\* What the signup form shows pre-populated after the first signup step.
PrefillOutcomes(typed) == {typed, [name |-> typed.name, email |-> ""]}

\* SignUpPage.validateNameAndEmail
validateNameAndEmail(fields, expectedName, expectedEmail) ==
  fields.name = expectedName /\ fields.email = expectedEmail

\* paymentPage.fillPaymentForm(userData.name, userData.cardNumber, userData.cvv,
\*   userData.expiryMonth.toString(), userData.expiryYear.toString())
PaymentFormArgumentsSwapped(u) ==
  [name |-> u.name, cardNumber |-> u.cardNumber, cvc |-> u.cvv,
   month |-> toString(u.expiryYear), year |-> toString(u.expiryMonth)]
PaymentFormArguments(u) ==
  [name |-> u.name, cardNumber |-> u.cardNumber, cvc |-> u.cvv,
   month |-> toString(u.expiryMonth), year |-> toString(u.expiryYear)]

\* ------------------------------------------------------------------
\* The setup hook and the statements of the test body.
\* ------------------------------------------------------------------

\* test.beforeEach: randomQuantity = DataGenerator.generateRandomQuantity(1, 20)
BeforeEach ==
  /\ status = "running" /\ pc = 0
  /\ \E q \in generateRandomQuantity(QuantityMin, QuantityMax) :
       /\ randomQuantity' = q
       /\ hookQuantity' = q
  /\ pc' = 1
  /\ UNCHANGED <<status, failure, executed, passedExpects, quantityInput,
                 cartQuantityText, setQuantityArg, setQuantityOutcome, setValue,
                 fieldExpected, cartExpected, userVars, retryVars, runnerVars,
                 pageVars, generatorVars>>

\* A statement without an action of its own returns (and its expect passes).
StatementPasses ==
  /\ At(pc) /\ pc \notin OwnAction
  /\ Advance(pc)
  /\ UNCHANGED <<quantityVars, userVars, retryVars, runnerVars,
                 pageVars, generatorVars>>

\* Its page-object call rejects (a wait times out, an interaction fails).
StatementRejects ==
  /\ At(pc) /\ pc \notin OwnAction
  /\ Flow[pc].throws
  /\ Abort(pc, "TimeoutError")
  /\ UNCHANGED <<quantityVars, userVars, retryVars, runnerVars,
                 pageVars, generatorVars>>

\* Its call returns a value the expect(...) that follows rejects.
ExpectFails ==
  /\ At(pc) /\ pc \notin OwnAction
  /\ Flow[pc].expect
  /\ Abort(pc, "AssertionFailure")
  /\ UNCHANGED <<quantityVars, userVars, retryVars, runnerVars,
                 pageVars, generatorVars>>

\* await productDetailPage.setQuantity(randomQuantity):
\*   waitForElement; clear(); fill(quantity.toString()); read back; compare.
SetQuantity ==
  /\ At(SetQuantityAt) /\ pc = SetQuantityAt
  /\ setQuantityArg' = randomQuantity
  /\ \/ \* the wait, the clear or the fill rejects
        /\ \E left \in {quantityInput, <<>>} : quantityInput' = left
        /\ setQuantityOutcome' = "TimeoutError"
        /\ UNCHANGED setValue
        /\ Abort(pc, "TimeoutError")
     \/ \E after \in FillOutcomes(toString(randomQuantity)) :
          /\ quantityInput' = after
          /\ setValue' = after
          /\ IF QuantityMatches(after, randomQuantity)
               THEN /\ setQuantityOutcome' = "returned"
                    /\ Advance(pc)
               ELSE /\ setQuantityOutcome' = "ValueMismatch"
                    /\ Abort(pc, "ValueMismatch")
  /\ UNCHANGED <<randomQuantity, hookQuantity, cartQuantityText, fieldExpected,
                 cartExpected, userVars, retryVars, runnerVars,
                 pageVars, generatorVars>>

\* const currentQuantity = await productDetailPage.getCurrentQuantity();
\* expect(parseInt(currentQuantity)).toBe(randomQuantity);
GetCurrentQuantity ==
  /\ At(GetCurrentQuantityAt) /\ pc = GetCurrentQuantityAt
  /\ \/ /\ Abort(pc, "TimeoutError")
        /\ UNCHANGED fieldExpected
     \/ /\ fieldExpected' = randomQuantity
        /\ IF parseInt(quantityInput) = randomQuantity
             THEN Advance(pc)
             ELSE Abort(pc, "AssertionFailure")
  /\ UNCHANGED <<randomQuantity, hookQuantity, quantityInput, cartQuantityText,
                 setQuantityArg, setQuantityOutcome, setValue, cartExpected,
                 userVars, retryVars, runnerVars,
                 pageVars, generatorVars>>

\* await productDetailPage.addToCart(): scroll, click, wait for the modal.
AddToCart ==
  /\ At(AddToCartAt) /\ pc = AddToCartAt
  /\ \/ \* the scroll or the click rejects
        /\ Abort(pc, "TimeoutError")
        /\ UNCHANGED cartQuantityText
     \/ \* clicked: the site fills the cart; the modal shows or the wait times out
        /\ \E text \in SiteCartTexts(quantityInput) : cartQuantityText' = text
        /\ \/ Advance(pc)
           \/ Abort(pc, "TimeoutError")
  /\ UNCHANGED <<randomQuantity, hookQuantity, quantityInput, setQuantityArg,
                 setQuantityOutcome, setValue, fieldExpected, cartExpected,
                 userVars, retryVars, runnerVars,
                 pageVars, generatorVars>>

\* const cartQuantity = await cartPage.getItemQuantity(0);
\* expect(cartQuantity).toBe(randomQuantity);
GetItemQuantity ==
  /\ At(GetItemQuantityAt) /\ pc = GetItemQuantityAt
  /\ \/ /\ Abort(pc, "TimeoutError")
        /\ UNCHANGED cartExpected
     \/ /\ cartExpected' = randomQuantity
        /\ IF parseInt(getTextContent(cartQuantityText)) = randomQuantity
             THEN Advance(pc)
             ELSE Abort(pc, "AssertionFailure")
  /\ UNCHANGED <<randomQuantity, hookQuantity, quantityInput, cartQuantityText,
                 setQuantityArg, setQuantityOutcome, setValue, fieldExpected,
                 userVars, retryVars, runnerVars,
                 pageVars, generatorVars>>

\* const userData = DataGenerator.generateUserData();
GenerateUserData ==
  /\ At(GenerateUserDataAt) /\ pc = GenerateUserDataAt
  /\ \E u \in generateUserData :
       /\ userData' = u
       /\ generatedUser' = u
  /\ generated' = generated + 1
  /\ Advance(pc)
  /\ UNCHANGED <<quantityVars, loginTyped, signupFields, validateExpected,
                 signupArg, paymentArg, paymentSubmitted, retryVars, runnerVars,
                 pageVars, generatorVars>>

\* await loginPage.fillSignupForm(userData.name, userData.email);
LoginFillSignupForm ==
  /\ At(LoginFillSignupFormAt) /\ pc = LoginFillSignupFormAt
  /\ loginTyped' = SignupCredentials(userData)
  /\ \/ /\ Abort(pc, "TimeoutError")
        /\ UNCHANGED signupFields
     \/ /\ \E shown \in PrefillOutcomes(SignupCredentials(userData)) :
             signupFields' = shown
        /\ Advance(pc)
  /\ UNCHANGED <<quantityVars, userData, generatedUser, generated,
                 validateExpected, signupArg, paymentArg, paymentSubmitted,
                 retryVars, runnerVars,
                 pageVars, generatorVars>>

\* const isNameAndEmailPrefilled =
\*   await signUpPage.validateNameAndEmail(userData.name, userData.email);
\* expect(isNameAndEmailPrefilled).toBeTruthy();
ValidateNameAndEmail ==
  /\ At(ValidateNameAndEmailAt) /\ pc = ValidateNameAndEmailAt
  /\ validateExpected' = [name |-> userData.name, email |-> userData.email]
  /\ \/ \* an inputValue() rejects
        Abort(pc, "TimeoutError")
     \/ IF validateNameAndEmail(signupFields, userData.name, userData.email)
          THEN Advance(pc)
          ELSE Abort(pc, "AssertionFailure")
  /\ UNCHANGED <<quantityVars, userData, generatedUser, generated, loginTyped,
                 signupFields, signupArg, paymentArg, paymentSubmitted,
                 retryVars, runnerVars,
                 pageVars, generatorVars>>

\* await signUpPage.fillSignupForm(userData);
SignUpFillSignupForm ==
  /\ At(SignUpFillSignupFormAt) /\ pc = SignUpFillSignupFormAt
  /\ signupArg' = userData
  /\ \/ Abort(pc, "TimeoutError")
     \/ Advance(pc)
  /\ UNCHANGED <<quantityVars, userData, generatedUser, generated, loginTyped,
                 signupFields, validateExpected, paymentArg, paymentSubmitted,
                 retryVars, runnerVars,
                 pageVars, generatorVars>>

\* await paymentPage.fillPaymentForm(...): five fillInput, then the pay click.
FillPaymentForm ==
  /\ At(FillPaymentFormAt) /\ pc = FillPaymentFormAt
  /\ paymentArg' = PaymentFormArguments(userData)
  /\ \/ \* a fillInput rejects: the pay button is not clicked
        /\ Abort(pc, "TimeoutError")
        /\ UNCHANGED paymentSubmitted
     \/ \* the pay button is clicked
        /\ paymentSubmitted' = TRUE
        /\ Advance(pc)
  /\ UNCHANGED <<quantityVars, userData, generatedUser, generated, loginTyped,
                 signupFields, validateExpected, signupArg, retryVars, runnerVars,
                 pageVars, generatorVars>>

\* Before the setup hook runs.
FlowStarts ==
  /\ pc = 0
  /\ status = "running"
  /\ failure = NoFailure
  /\ executed = <<>>
  /\ passedExpects = {}
  /\ randomQuantity = 0
  /\ hookQuantity = 0
  /\ quantityInput = <<"1">>
  /\ cartQuantityText = <<>>
  /\ setQuantityArg = 0
  /\ setQuantityOutcome = "none"
  /\ setValue = <<>>
  /\ fieldExpected = 0
  /\ cartExpected = 0
  /\ userData = NoUser
  /\ generatedUser = NoUser
  /\ generated = 0
  /\ loginTyped = NoCredentials
  /\ signupFields = NoCredentials
  /\ validateExpected = NoCredentials
  /\ signupArg = NoUser
  /\ paymentArg = NoPayment
  /\ paymentSubmitted = FALSE

\* No test is being run.
FlowIdle ==
  /\ pc = 0
  /\ status = "idle"
  /\ failure = NoFailure
  /\ executed = <<>>
  /\ passedExpects = {}
  /\ randomQuantity = 0
  /\ hookQuantity = 0
  /\ quantityInput = <<"1">>
  /\ cartQuantityText = <<>>
  /\ setQuantityArg = 0
  /\ setQuantityOutcome = "none"
  /\ setValue = <<>>
  /\ fieldExpected = 0
  /\ cartExpected = 0
  /\ userData = NoUser
  /\ generatedUser = NoUser
  /\ generated = 0
  /\ loginTyped = NoCredentials
  /\ signupFields = NoCredentials
  /\ validateExpected = NoCredentials
  /\ signupArg = NoUser
  /\ paymentArg = NoPayment
  /\ paymentSubmitted = FALSE

\* ==================================================================
\* The test runner (playwright.config.ts) and the describe-level state
\* ==================================================================
\* The runner is Playwright's: every worker is an operating-system process
\* that loads the spec file itself, runs one test at a time (the beforeEach
\* hooks, then the body), and is discarded after a failed test, the retry
\* starting in a fresh worker.

\* The config asks for one worker (workers: 1); the command line can ask for
\* more. With two, runs in which one worker takes every test are included.
Workers == {1, 2}

Instances == 1 .. NumInstances

\* `let randomQuantity: number` before any hook has assigned it.
NoValue == 0

\* retries: process.env.CI ? 2 : 1
Retries(inCI) == IF inCI THEN RetriesInCI ELSE RetriesLocally

\* The memory cell that holds `let randomQuantity` for the tests worker w
\* runs: the variable lives in the module scope of w's own process.
VariableOfShared(w) == 1
VariableOf(w) == w

RunnerStarts ==
  /\ ci \in BOOLEAN
  /\ workerVariable = [w \in Workers |-> NoValue]
  /\ workerTest = [w \in Workers |-> 0]
  /\ workerPc = [w \in Workers |-> "idle"]
  /\ testState = [i \in Instances |-> "queued"]
  /\ attempts = [i \in Instances |-> 0]
  /\ hookWrote = [i \in Instances |-> NoValue]
  /\ passedToSetQuantity = [i \in Instances |-> NoValue]
  /\ comparedWithCart = [i \in Instances |-> NoValue]

\* The runner schedules nothing.
RunnerIdle ==
  /\ ci = FALSE
  /\ workerVariable = [w \in Workers |-> NoValue]
  /\ workerTest = [w \in Workers |-> 0]
  /\ workerPc = [w \in Workers |-> "idle"]
  /\ testState = [i \in Instances |-> "idle"]
  /\ attempts = [i \in Instances |-> 0]
  /\ hookWrote = [i \in Instances |-> NoValue]
  /\ passedToSetQuantity = [i \in Instances |-> NoValue]
  /\ comparedWithCart = [i \in Instances |-> NoValue]

\* An idle worker takes the first queued test instance.
RunnerDispatch(w, i) ==
  /\ workerPc[w] = "idle"
  /\ testState[i] = "queued"
  /\ \A j \in Instances : testState[j] = "queued" => i <= j
  /\ workerTest' = [workerTest EXCEPT ![w] = i]
  /\ workerPc' = [workerPc EXCEPT ![w] = "beforeEach"]
  /\ testState' = [testState EXCEPT ![i] = "running"]
  /\ attempts' = [attempts EXCEPT ![i] = @ + 1]
  /\ UNCHANGED <<ci, workerVariable, hookWrote, passedToSetQuantity,
                 comparedWithCart, retryVars, flowVars,
                 pageVars, generatorVars>>

\* test.beforeEach: randomQuantity = DataGenerator.generateRandomQuantity(1, 20)
RunnerBeforeEach(w) ==
  /\ workerPc[w] = "beforeEach"
  /\ \E q \in generateRandomQuantity(QuantityMin, QuantityMax) :
       /\ workerVariable' = [workerVariable EXCEPT ![VariableOf(w)] = q]
       /\ hookWrote' = [hookWrote EXCEPT ![workerTest[w]] = q]
  /\ workerPc' = [workerPc EXCEPT ![w] = "setQuantity"]
  /\ UNCHANGED <<ci, workerTest, testState, attempts, passedToSetQuantity,
                 comparedWithCart, retryVars, flowVars,
                 pageVars, generatorVars>>

\* await productDetailPage.setQuantity(randomQuantity) and the expect on the field
RunnerSetQuantity(w) ==
  /\ workerPc[w] = "setQuantity"
  /\ passedToSetQuantity' =
       [passedToSetQuantity EXCEPT ![workerTest[w]] = workerVariable[VariableOf(w)]]
  /\ workerPc' = [workerPc EXCEPT ![w] = "cartCheck"]
  /\ UNCHANGED <<ci, workerVariable, workerTest, testState, attempts, hookWrote,
                 comparedWithCart, retryVars, flowVars,
                 pageVars, generatorVars>>

\* expect(cartQuantity).toBe(randomQuantity)
RunnerCartCheck(w) ==
  /\ workerPc[w] = "cartCheck"
  /\ comparedWithCart' =
       [comparedWithCart EXCEPT ![workerTest[w]] = workerVariable[VariableOf(w)]]
  /\ workerPc' = [workerPc EXCEPT ![w] = "end"]
  /\ UNCHANGED <<ci, workerVariable, workerTest, testState, attempts, hookWrote,
                 passedToSetQuantity, retryVars, flowVars,
                 pageVars, generatorVars>>

\* The instance's histories end with its attempt.
Forget(i) ==
  /\ hookWrote' = [hookWrote EXCEPT ![i] = NoValue]
  /\ passedToSetQuantity' = [passedToSetQuantity EXCEPT ![i] = NoValue]
  /\ comparedWithCart' = [comparedWithCart EXCEPT ![i] = NoValue]

\* The test body ran to its end: the worker goes on to the next test.
RunnerTestPasses(w) ==
  /\ workerPc[w] = "end"
  /\ testState' = [testState EXCEPT ![workerTest[w]] = "passed"]
  /\ workerTest' = [workerTest EXCEPT ![w] = 0]
  /\ workerPc' = [workerPc EXCEPT ![w] = "idle"]
  /\ Forget(workerTest[w])
  /\ attempts' = [attempts EXCEPT ![workerTest[w]] = 0]
  /\ UNCHANGED <<ci, workerVariable, retryVars, flowVars,
                 pageVars, generatorVars>>

\* A statement of the body failed: the worker process is replaced, and the
\* instance is queued again while it has retries left.
RunnerTestFails(w) ==
  /\ workerPc[w] \in {"setQuantity", "cartCheck", "end"}
  /\ testState' = [testState EXCEPT ![workerTest[w]] =
                     IF attempts[workerTest[w]] <= Retries(ci) THEN "queued" ELSE "failed"]
  /\ workerVariable' = [workerVariable EXCEPT ![VariableOf(w)] = NoValue]
  /\ workerTest' = [workerTest EXCEPT ![w] = 0]
  /\ workerPc' = [workerPc EXCEPT ![w] = "idle"]
  /\ Forget(workerTest[w])
  /\ attempts' = [attempts EXCEPT ![workerTest[w]] =
                    IF @ <= Retries(ci) THEN @ ELSE 0]
  /\ UNCHANGED <<ci, retryVars, flowVars,
                 pageVars, generatorVars>>

\* ==================================================================
\* Calls of page-object methods (BasePage, CartPage, SignUpPage)
\* ==================================================================

\* What a locator finds: no node, a hidden node, a visible node, or a lookup
\* that fails (page closed, selector not resolvable).
NodeStates == {"absent", "hidden", "visible", "failing"}

\* The modals '.modal-content' can match.
ModalKinds == {"registerLogin", "success"}

\* locator.isVisible(): the engine's answer, without waiting.
locatorIsVisible(node) ==
  CASE node = "visible" -> "true"
    [] node = "failing" -> "throws"
    [] OTHER -> "false"

\* BasePage.isVisible: try { return await locator.isVisible() } catch { return false }
isVisibleRethrows(answer) ==
  IF answer = "throws"
    THEN [outcome |-> "thrown", value |-> FALSE, error |-> "LookupError"]
    ELSE [outcome |-> "returned", value |-> (answer = "true"), error |-> "none"]
isVisible(answer) ==
  IF answer = "throws"
    THEN [outcome |-> "returned", value |-> FALSE, error |-> "none"]
    ELSE [outcome |-> "returned", value |-> (answer = "true"), error |-> "none"]

\* page.viewportSize(): null, or a size.
NoViewport == [set |-> FALSE, width |-> 0]

\* Widths around the breakpoint, and the widths of the configured projects.
ViewportWidths ==
  ((MobileBreakpoint - WidthMargin) .. (MobileBreakpoint + WidthMargin)) \cup {393, 1920}

Viewports == {NoViewport} \cup {[set |-> TRUE, width |-> w] : w \in ViewportWidths}

\* BasePage.isMobileViewport: viewport ? viewport.width < 768 : false
isMobileViewportInclusive(viewport) ==
  IF viewport.set THEN viewport.width <= MobileBreakpoint ELSE FALSE
isMobileViewport(viewport) ==
  IF viewport.set THEN viewport.width < MobileBreakpoint ELSE FALSE

\* What a call does to the page.
Wait(what) == [kind |-> "wait", what |-> what]
Log(what) == [kind |-> "log", what |-> what]
Click(what) == [kind |-> "click", what |-> what]

\* waitForLoadState('networkidle', ...).catch(() => console.log(...))
NetworkIdleWaitUncaught(networkIdle) ==
  [events |-> <<Wait("networkidle")>>,
   outcome |-> IF networkIdle THEN "returned" ELSE "thrown",
   error |-> IF networkIdle THEN "none" ELSE "TimeoutError"]
NetworkIdleWait(networkIdle) ==
  [events |-> IF networkIdle
                THEN <<Wait("networkidle")>>
                ELSE <<Wait("networkidle"),
                       Log("Network idle timeout reached, continuing...")>>,
   outcome |-> "returned",
   error |-> "none"]

\* BasePage.waitForPageLoad
waitForPageLoad(domReady, networkIdle) ==
  IF ~domReady
    THEN [events |-> <<Wait("domcontentloaded")>>,
          outcome |-> "thrown", error |-> "TimeoutError"]
    ELSE LET idle == NetworkIdleWait(networkIdle)
         IN [events |-> <<Wait("domcontentloaded")>> \o idle.events,
             outcome |-> idle.outcome, error |-> idle.error]

\* URLs the page can be at, as texts.
CartUrl == <<"/", "v", "i", "e", "w", "_", "c", "a", "r", "t">>
LoginPath == <<"/", "l", "o", "g", "i", "n">>
Urls == {CartUrl, LoginPath, LoginPath \o <<"?", "n">>,
         SubSeq(LoginPath, 1, 5), <<"/">>}

\* return modalVisible || isLoginPage
ModalAndLoginPage(modalVisible, isLoginPage) == modalVisible /\ isLoginPage
ModalOrLoginPage(modalVisible, isLoginPage) == modalVisible \/ isLoginPage

\* CartPage.isRegisterLoginModalVisible: on a closed page waitForTimeout
\* rejects and the catch returns false.
isRegisterLoginModalVisible(pageOpen, modalNode, url) ==
  IF ~pageOpen THEN FALSE
  ELSE ModalOrLoginPage(isVisible(locatorIsVisible(modalNode)).value,
                        includes(url, LoginPath))

\* CartPage.clickRegisterLogin: if (isModalButtonVisible) modalButton else registerLoginButton
LinkToClickAlwaysPageLevel(isModalButtonVisible) == "registerLoginButton"
LinkToClick(isModalButtonVisible) ==
  IF isModalButtonVisible THEN "modalButton" ELSE "registerLoginButton"

\* Values of the signup form's name and email fields; Unreadable: the field
\* is not there, inputValue() rejects.
Unreadable == "<no such field>"
FieldNames == {"Mary Smith", "mary smith", Unreadable}
FieldEmails == {"mary.smith@example.com", "", Unreadable}

\* Texts of a node.
NodeTexts == {NullText, <<>>, <<"7">>, <<" ", "7">>, <<"7", "\n">>,
              <<" ", "1", "2", " ">>, <<" ">>}

NoEnv ==
  [pageOpen |-> TRUE, locator |-> "absent", modalKind |-> "none", url |-> <<>>,
   clickOk |-> TRUE, domReady |-> TRUE, networkIdle |-> TRUE,
   nameField |-> "", emailField |-> "", expectedName |-> "", expectedEmail |-> "",
   nodeText |-> <<>>, viewport |-> NoViewport,
   itemName |-> <<>>, expectedQuantity |-> 0, expectedItem |-> <<>>, link |-> "none",
   nameNode |-> "absent", linkNode |-> "absent"]

\* No page-object method has been called.
PageIdle ==
  /\ call = "none"
  /\ env = NoEnv
  /\ events = <<>>
  /\ outcome = "none"
  /\ returnedBool = FALSE
  /\ returnedText = <<>>
  /\ thrown = "none"

\* What a call that returns no boolean and no text leaves in the result
\* variables.
Ends(result) ==
  /\ outcome' = result.outcome
  /\ thrown' = result.error

\* BasePage.isVisible(locator)
IsVisibleCall ==
  \E node \in NodeStates :
    LET r == isVisible(locatorIsVisible(node)) IN
      /\ call' = "isVisible"
      /\ env' = [NoEnv EXCEPT !.locator = node, !.pageOpen = (node # "failing")]
      /\ events' = <<>>
      /\ Ends(r)
      /\ returnedBool' = r.value
      /\ returnedText' = <<>>
      /\ UNCHANGED <<retryVars, flowVars, runnerVars, generatorVars>>

\* BasePage.getTextContent(locator): waitFor visible, then textContent() || ''
GetTextContentCall ==
  \E node \in {"absent", "hidden", "visible"}, text \in NodeTexts :
    /\ call' = "getTextContent"
    /\ env' = [NoEnv EXCEPT !.locator = node, !.nodeText = text]
    /\ events' = <<Wait("visible")>>
    /\ IF node = "visible"
         THEN /\ Ends([outcome |-> "returned", error |-> "none"])
              /\ returnedText' = getTextContent(text)
         ELSE /\ Ends([outcome |-> "thrown", error |-> "TimeoutError"])
              /\ returnedText' = <<>>
    /\ returnedBool' = FALSE
    /\ UNCHANGED <<retryVars, flowVars, runnerVars, generatorVars>>

\* BasePage.isMobileViewport()
IsMobileViewportCall ==
  \E viewport \in Viewports :
    /\ call' = "isMobileViewport"
    /\ env' = [NoEnv EXCEPT !.viewport = viewport]
    /\ events' = <<>>
    /\ Ends([outcome |-> "returned", error |-> "none"])
    /\ returnedBool' = isMobileViewport(viewport)
    /\ returnedText' = <<>>
    /\ UNCHANGED <<retryVars, flowVars, runnerVars, generatorVars>>

\* BasePage.waitForPageLoad()
WaitForPageLoadCall ==
  \E domReady \in BOOLEAN, networkIdle \in BOOLEAN :
    LET r == waitForPageLoad(domReady, networkIdle) IN
      /\ call' = "waitForPageLoad"
      /\ env' = [NoEnv EXCEPT !.domReady = domReady, !.networkIdle = networkIdle]
      /\ events' = r.events
      /\ Ends(r)
      /\ returnedBool' = FALSE
      /\ returnedText' = <<>>
      /\ UNCHANGED <<retryVars, flowVars, runnerVars, generatorVars>>

\* CartPage.isRegisterLoginModalVisible()
IsRegisterLoginModalVisibleCall ==
  \E pageOpen \in BOOLEAN, node \in NodeStates, kind \in ModalKinds \cup {"none"},
     url \in Urls :
    /\ pageOpen <=> node # "failing"
    /\ kind = "none" <=> node \in {"absent", "failing"}
    /\ call' = "isRegisterLoginModalVisible"
    /\ env' = [NoEnv EXCEPT !.pageOpen = pageOpen, !.locator = node,
                            !.modalKind = kind, !.url = url]
    /\ events' = <<Wait("timeout")>>
    /\ Ends([outcome |-> "returned", error |-> "none"])
    /\ returnedBool' = isRegisterLoginModalVisible(pageOpen, node, url)
    /\ returnedText' = <<>>
    /\ UNCHANGED <<retryVars, flowVars, runnerVars, generatorVars>>

\* CartPage.clickRegisterLogin(): clickElement rejects (clickOk false) when
\* the link it is given does not become visible or cannot be clicked.
ClickRegisterLoginCall ==
  \E node \in NodeStates, clickOk \in BOOLEAN, domReady \in BOOLEAN,
     networkIdle \in BOOLEAN :
    LET target == LinkToClick(isVisible(locatorIsVisible(node)).value)
        load == waitForPageLoad(domReady, networkIdle)
    IN /\ call' = "clickRegisterLogin"
       /\ env' = [NoEnv EXCEPT !.locator = node, !.clickOk = clickOk,
                               !.domReady = domReady, !.networkIdle = networkIdle]
       /\ IF clickOk
            THEN /\ events' = <<Click(target)>> \o load.events
                 /\ Ends(load)
            ELSE /\ events' = <<>>
                 /\ Ends([outcome |-> "thrown", error |-> "TimeoutError"])
       /\ returnedBool' = FALSE
       /\ returnedText' = <<>>
       /\ UNCHANGED <<retryVars, flowVars, runnerVars, generatorVars>>

\* SignUpPage.validateNameAndEmail(expectedName, expectedEmail)
ValidateNameAndEmailCall ==
  \E nameField \in FieldNames, emailField \in FieldEmails,
     expectedName \in {"Mary Smith", "James Smith"},
     expectedEmail \in {"mary.smith@example.com", "james.smith@example.com"} :
    /\ call' = "validateNameAndEmail"
    /\ env' = [NoEnv EXCEPT !.nameField = nameField, !.emailField = emailField,
                            !.expectedName = expectedName,
                            !.expectedEmail = expectedEmail]
    /\ events' = <<>>
    /\ IF nameField = Unreadable \/ emailField = Unreadable
         THEN /\ Ends([outcome |-> "thrown", error |-> "TimeoutError"])
              /\ returnedBool' = FALSE
         ELSE /\ Ends([outcome |-> "returned", error |-> "none"])
              /\ returnedBool' = validateNameAndEmail(
                                   [name |-> nameField, email |-> emailField],
                                   expectedName, expectedEmail)
    /\ returnedText' = <<>>
    /\ UNCHANGED <<retryVars, flowVars, runnerVars, generatorVars>>

\* ==================================================================
\* Calls of DataGenerator methods
\* ==================================================================
\* The result variables hold the outcome of the last call; sawMin and sawMax
\* accumulate over consecutive generateRandomQuantity calls.

\* An argument the caller left out.
Omitted == 0 - 1

ArgumentValues == 0 .. MaxArgument

\* min: number = 1, max: number = 20
WithDefault(arg, default) == IF arg = Omitted THEN default ELSE arg

\* The error faker.number.int raises for a range whose max is below its min
\* ("Max ${max} should be greater than min ${min}.").
RangeError == "FakerError: Max should be greater than min"

\* return faker.number.int({ min, max }): the ways a call can end.
generateRandomQuantityOutcomesSwapping(min, max) ==
  { [outcome |-> "returned", value |-> v, error |-> "none"] :
      v \in (IF max < min THEN max .. min ELSE min .. max) }
generateRandomQuantityOutcomes(min, max) ==
  IF max < min
    THEN { [outcome |-> "thrown", value |-> 0, error |-> RangeError] }
    ELSE { [outcome |-> "returned", value |-> v, error |-> "none"] :
             v \in generateRandomQuantity(min, max) }

\* The years a person has completed at the date now.
age(birthDate, now) ==
  now.year - birthDate.year
    - (IF \/ now.month < birthDate.month
          \/ now.month = birthDate.month /\ now.day < birthDate.day
       THEN 1 ELSE 0)

\* The birth years the model draws from: the two at each end of the range a
\* person of min to max years can be born in.
BirthYears(min, max, now) ==
  { now.year - max - 1, now.year - max, now.year - min - 1, now.year - min }

\* faker.date.birthdate({ min, max, mode: 'age' }): the birth date of a
\* person who is min to max years old now.
birthdate(min, max, now) ==
  { d \in [year : BirthYears(min, max, now), month : Months0, day : Days] :
      age(d, now) \in min .. max }

MinAge == 18
MaxAge == 80

NoBirth == [day |-> <<>>, month |-> <<>>, year |-> <<>>]

\* generateDateOfBirth(): the three components of birthDate as strings.
generateDateOfBirthZeroBasedMonth(birthDate) ==
  [day   |-> toString(birthDate.day),
   month |-> toString(birthDate.month),
   year  |-> toString(birthDate.year)]
generateDateOfBirth(birthDate) ==
  [day   |-> toString(birthDate.day),
   month |-> toString(birthDate.month + 1),
   year  |-> toString(birthDate.year)]

\* faker.string.alphanumeric(5): the suffixes the model draws from.
Suffixes == { <<"a", "a", "a", "a", "a">>, <<"a", "a", "a", "a", "b">> }

\* `test.user.${timestamp}.${randomString}@example.com`
generateUniqueEmail(timestamp, randomString) ==
  <<"t", "e", "s", "t", ".", "u", "s", "e", "r", ".">>
    \o toString(timestamp) \o <<".">> \o randomString
    \o <<"@", "e", "x", "a", "m", "p", "l", "e", ".", "c", "o", "m">>

\* What a generator call leaves of the results of the other methods.
NoQuantityResult ==
  /\ minArg' = Omitted
  /\ maxArg' = Omitted
  /\ quantityOutcome' = "none"
  /\ quantityReturned' = 0
  /\ quantityThrown' = "none"
  /\ sawMin' = FALSE
  /\ sawMax' = FALSE

NoUserResult ==
  /\ chosenGenre' = "none"
  /\ generatedRecord' = NoUser

NoDateResult ==
  /\ generatedAt' = NoInstant
  /\ generatedCard' = NoCard
  /\ generatedBirth' = NoBirth

NoEmailResult ==
  /\ clock' = 0
  /\ issuedEmails' = <<>>

\* No generator method is called.
GeneratorIdle ==
  /\ minArg = Omitted
  /\ maxArg = Omitted
  /\ quantityOutcome = "none"
  /\ quantityReturned = 0
  /\ quantityThrown = "none"
  /\ sawMin = FALSE
  /\ sawMax = FALSE
  /\ chosenGenre = "none"
  /\ generatedRecord = NoUser
  /\ generatedAt = NoInstant
  /\ generatedCard = NoCard
  /\ generatedBirth = NoBirth
  /\ clock = 0
  /\ issuedEmails = <<>>

\* Before the first generator call.
GeneratorStarts == GeneratorIdle

\* DataGenerator.generateRandomQuantity(a, b); sawMin and sawMax accumulate
\* over consecutive calls with the same arguments.
GenerateRandomQuantityCall ==
  \E a \in ArgumentValues \cup {Omitted}, b \in ArgumentValues \cup {Omitted} :
    LET min == WithDefault(a, DefaultMin)
        max == WithDefault(b, DefaultMax)
        again == quantityOutcome # "none" /\ a = minArg /\ b = maxArg
    IN \E o \in generateRandomQuantityOutcomes(min, max) :
         /\ minArg' = a
         /\ maxArg' = b
         /\ quantityOutcome' = o.outcome
         /\ quantityReturned' = o.value
         /\ quantityThrown' = o.error
         /\ sawMin' = ((again /\ sawMin) \/ (o.outcome = "returned" /\ o.value = min))
         /\ sawMax' = ((again /\ sawMax) \/ (o.outcome = "returned" /\ o.value = max))
         /\ NoUserResult
         /\ NoDateResult
         /\ NoEmailResult
         /\ UNCHANGED <<retryVars, flowVars, runnerVars, pageVars>>

\* DataGenerator.generateUserData()
GenerateUserDataCall ==
  /\ \E genre \in {"male", "female"} :
       \E firstName \in FirstNames(genre), lastName \in LastNames :
         \E email \in FakerEmails(firstName, lastName), creditCard \in generateCreditCard :
           /\ chosenGenre' = genre
           /\ generatedRecord' = UserDataFor(genre, firstName, lastName, email, creditCard)
  /\ NoQuantityResult
  /\ NoDateResult
  /\ NoEmailResult
  /\ UNCHANGED <<retryVars, flowVars, runnerVars, pageVars>>

\* DataGenerator.generateCreditCard(), called at the date now
GenerateCreditCardCall ==
  /\ \E now \in GenerationInstants :
       \E creditCard \in generateCreditCardAt(now) :
         /\ generatedAt' = now
         /\ generatedCard' = creditCard
  /\ generatedBirth' = NoBirth
  /\ NoQuantityResult
  /\ NoUserResult
  /\ NoEmailResult
  /\ UNCHANGED <<retryVars, flowVars, runnerVars, pageVars>>

\* DataGenerator.generateDateOfBirth(), called at the date now
GenerateDateOfBirthCall ==
  /\ \E now \in GenerationInstants :
       \E birthDate \in birthdate(MinAge, MaxAge, now) :
         /\ generatedAt' = now
         /\ generatedBirth' = generateDateOfBirth(birthDate)
  /\ generatedCard' = NoCard
  /\ NoQuantityResult
  /\ NoUserResult
  /\ NoEmailResult
  /\ UNCHANGED <<retryVars, flowVars, runnerVars, pageVars>>

\* DataGenerator.generateUniqueEmail(): the clock is read once; up to the
\* caller's next call it has advanced by some whole number of milliseconds,
\* possibly none.
GenerateUniqueEmailCall ==
  /\ Len(issuedEmails) < MaxEmails
  /\ \E randomString \in Suffixes :
       issuedEmails' = Append(issuedEmails, generateUniqueEmail(clock, randomString))
  /\ \E later \in clock .. MaxClock : clock' = later
  /\ NoQuantityResult
  /\ NoUserResult
  /\ NoDateResult
  /\ UNCHANGED <<retryVars, flowVars, runnerVars, pageVars>>

\* ==================================================================
\* Calls of further page-object methods
\* ==================================================================

Scroll(what) == [kind |-> "scroll", what |-> what]

\* Runs the steps in order up to the first that throws; the events of the
\* steps that ran, and how the sequence ended.
RECURSIVE InOrder(_)
InOrder(steps) ==
  IF steps = <<>> THEN [events |-> <<>>, outcome |-> "returned", error |-> "none"]
  ELSE LET first == Head(steps) IN
         IF first.outcome = "thrown"
           THEN [events |-> first.events, outcome |-> "thrown", error |-> first.error]
           ELSE LET rest == InOrder(Tail(steps)) IN
                  [events |-> first.events \o rest.events,
                   outcome |-> rest.outcome, error |-> rest.error]

\* BasePage.scrollIntoView(locator): scrollIntoViewIfNeeded() rejects for a
\* node that is not attached.
scrollIntoView(what, node) ==
  IF node \in {"absent", "failing"}
    THEN [events |-> <<>>, outcome |-> "thrown", error |-> "TimeoutError"]
    ELSE [events |-> <<Scroll(what)>>, outcome |-> "returned", error |-> "none"]

\* BasePage.clickElement(locator): waits for the node to be visible, then clicks.
clickElement(what, node) ==
  IF node # "visible"
    THEN [events |-> <<>>, outcome |-> "thrown", error |-> "TimeoutError"]
    ELSE [events |-> <<Click(what)>>, outcome |-> "returned", error |-> "none"]

\* BasePage.waitForElement(locator, timeout): locator.waitFor({ state: 'visible', timeout })
waitForElement(what, becomesVisible) ==
  IF becomesVisible
    THEN [events |-> <<Wait(what)>>, outcome |-> "returned", error |-> "none"]
    ELSE [events |-> <<>>, outcome |-> "thrown", error |-> "TimeoutError"]

\* ProductDetailPage.addToCart()
addToCartWithoutWaiting(button, modalAppears) ==
  InOrder(<<scrollIntoView("addToCartButton", button),
            clickElement("addToCartButton", button)>>)
addToCart(button, modalAppears) ==
  InOrder(<<scrollIntoView("addToCartButton", button),
            clickElement("addToCartButton", button),
            waitForElement("successModal", modalAppears)>>)

\* ProductDetailPage.addToCart() on a page whose add-to-cart button is in
\* the state button and where the click does or does not bring up the
\* success modal.
AddToCartCall ==
  \E button \in NodeStates, modalAppears \in BOOLEAN :
    LET r == addToCart(button, modalAppears) IN
      /\ call' = "addToCart"
      /\ env' = [NoEnv EXCEPT !.locator = button,
                              !.modalKind = IF modalAppears THEN "success" ELSE "none"]
      /\ events' = r.events
      /\ Ends(r)
      /\ returnedBool' = FALSE
      /\ returnedText' = <<>>
      /\ UNCHANGED <<retryVars, flowVars, runnerVars, generatorVars>>

\* A read through BasePage.getTextContent: waitFor({ state: 'visible' })
\* rejects for a node that does not become visible.
ReadText(node, text) ==
  IF node # "visible"
    THEN [outcome |-> "thrown", text |-> <<>>]
    ELSE [outcome |-> "returned", text |-> getTextContent(text)]

\* An optional string argument the caller left out.
NoName == <<"undefined">>

\* What the cart shows for its first item, and what callers expect of it.
QuantityTexts == {NullText, <<"7">>, <<" ", "1", "2", " ">>}
ItemNames == {<<"B", "l", "u", "e", " ", "T", "o", "p">>, <<"T", "o", "p">>}
ExpectedQuantities == {7, 12}
ExpectedNames == {NoName, <<>>, <<"T", "o", "p">>, <<"t", "o", "p">>}

\* CartPage.verifyCartItem(expectedQuantity, expectedName?)
verifyCartItemUncaught(quantityNode, quantityText, nameNode, nameText, expectedQuantity, expectedName) ==
  LET quantity == ReadText(quantityNode, quantityText)
      name == ReadText(nameNode, nameText)
  IN IF quantity.outcome = "thrown"
       THEN [outcome |-> "thrown", value |-> FALSE, error |-> "TimeoutError"]
     ELSE IF parseInt(quantity.text) # expectedQuantity
       THEN [outcome |-> "returned", value |-> FALSE, error |-> "none"]
     ELSE IF expectedName \in {NoName, <<>>}
       THEN [outcome |-> "returned", value |-> TRUE, error |-> "none"]
     ELSE IF name.outcome = "thrown"
       THEN [outcome |-> "thrown", value |-> FALSE, error |-> "TimeoutError"]
     ELSE [outcome |-> "returned", value |-> includes(name.text, expectedName),
           error |-> "none"]
verifyCartItem(quantityNode, quantityText, nameNode, nameText, expectedQuantity, expectedName) ==
  LET quantity == ReadText(quantityNode, quantityText)
      name == ReadText(nameNode, nameText)
  IN [outcome |-> "returned",
      value |-> IF quantity.outcome = "thrown" THEN FALSE
                ELSE IF parseInt(quantity.text) # expectedQuantity THEN FALSE
                ELSE IF expectedName \in {NoName, <<>>} THEN TRUE
                ELSE IF name.outcome = "thrown" THEN FALSE
                ELSE includes(name.text, expectedName),
      error |-> "none"]

\* CartPage.verifyCartItem(expectedQuantity, expectedName?) on a cart whose
\* first item has the given quantity button and name link.
VerifyCartItemCall ==
  \E quantityNode \in NodeStates, quantityText \in QuantityTexts,
     nameNode \in {"visible", "absent"}, nameText \in ItemNames,
     expectedQuantity \in ExpectedQuantities, expectedName \in ExpectedNames :
    LET r == verifyCartItem(quantityNode, quantityText, nameNode, nameText,
                            expectedQuantity, expectedName) IN
      /\ call' = "verifyCartItem"
      /\ env' = [NoEnv EXCEPT !.locator = quantityNode, !.nodeText = quantityText,
                              !.nameNode = nameNode, !.itemName = nameText,
                              !.expectedQuantity = expectedQuantity,
                              !.expectedItem = expectedName]
      /\ events' = <<>>
      /\ Ends(r)
      /\ returnedBool' = r.value
      /\ returnedText' = <<>>
      /\ UNCHANGED <<retryVars, flowVars, runnerVars, generatorVars>>

\* HomePage.openMobileMenu(): the toggle is clicked only if it is visible.
openMobileMenu(toggle) ==
  IF isVisible(locatorIsVisible(toggle)).value
    THEN InOrder(<<clickElement("mobileMenuToggle", toggle),
                   [events |-> <<Wait("500ms")>>, outcome |-> "returned", error |-> "none"]>>)
    ELSE InOrder(<<>>)

\* HomePage.navigateToProducts() / navigateToCart(), link being productsLink
\* or cartLink.
navigateToOpeningMenuAlways(link, viewport, toggle, linkNode, domReady, networkIdle) ==
  InOrder(<<openMobileMenu(toggle),
            scrollIntoView(link, linkNode),
            clickElement(link, linkNode),
            waitForPageLoad(domReady, networkIdle)>>)
navigateTo(link, viewport, toggle, linkNode, domReady, networkIdle) ==
  InOrder(<<IF isMobileViewport(viewport) THEN openMobileMenu(toggle) ELSE InOrder(<<>>),
            scrollIntoView(link, linkNode),
            clickElement(link, linkNode),
            waitForPageLoad(domReady, networkIdle)>>)

\* The viewports a navigation is tried on: none, the two configured project
\* widths, and the widths at the breakpoint.
NavigationViewports ==
  {NoViewport} \cup {[set |-> TRUE, width |-> w] :
                       w \in {393, MobileBreakpoint - 1, MobileBreakpoint, 1920}}

\* HomePage.navigateToProducts() or HomePage.navigateToCart()
NavigateCall ==
  \E link \in {"productsLink", "cartLink"}, viewport \in NavigationViewports,
     toggle \in NodeStates, linkNode \in {"visible", "hidden"},
     domReady \in BOOLEAN, networkIdle \in BOOLEAN :
    LET r == navigateTo(link, viewport, toggle, linkNode, domReady, networkIdle) IN
      /\ call' = "navigateTo"
      /\ env' = [NoEnv EXCEPT !.link = link, !.viewport = viewport,
                              !.locator = toggle, !.linkNode = linkNode,
                              !.domReady = domReady, !.networkIdle = networkIdle]
      /\ events' = r.events
      /\ Ends(r)
      /\ returnedBool' = FALSE
      /\ returnedText' = <<>>
      /\ UNCHANGED <<retryVars, flowVars, runnerVars, generatorVars>>
\* ==================================================================
\* Specifications
\* ==================================================================

\* One invocation of the purchase-flow test.
Init == FlowStarts /\ RetryIdle /\ RunnerIdle /\ PageIdle /\ GeneratorIdle

Next ==
  \/ BeforeEach
  \/ StatementPasses
  \/ StatementRejects
  \/ ExpectFails
  \/ SetQuantity
  \/ GetCurrentQuantity
  \/ AddToCart
  \/ GetItemQuantity
  \/ GenerateUserData
  \/ LoginFillSignupForm
  \/ ValidateNameAndEmail
  \/ SignUpFillSignupForm
  \/ FillPaymentForm

Spec == Init /\ [][Next]_vars

\* One call of BasePage.retryOperation.
RetryInit == RetryCalled /\ FlowIdle /\ RunnerIdle /\ PageIdle /\ GeneratorIdle

RetryNext ==
  \/ RetryLoopTest
  \/ RetryOperationResolves
  \/ RetryOperationRejects
  \/ RetryWait
  \/ RetryThrow

RetrySpec == RetryInit /\ [][RetryNext]_vars

\* Test instances scheduled on worker processes.
RunnerInit == RunnerStarts /\ FlowIdle /\ RetryIdle /\ PageIdle /\ GeneratorIdle

RunnerNext ==
  \/ \E w \in Workers, i \in Instances : RunnerDispatch(w, i)
  \/ \E w \in Workers : RunnerBeforeEach(w)
  \/ \E w \in Workers : RunnerSetQuantity(w)
  \/ \E w \in Workers : RunnerCartCheck(w)
  \/ \E w \in Workers : RunnerTestPasses(w)
  \/ \E w \in Workers : RunnerTestFails(w)

RunnerSpec == RunnerInit /\ [][RunnerNext]_vars

\* Calls of page-object methods, in any order.
PageInit == PageIdle /\ FlowIdle /\ RetryIdle /\ RunnerIdle /\ GeneratorIdle

PageNext ==
  \/ IsVisibleCall
  \/ GetTextContentCall
  \/ IsMobileViewportCall
  \/ WaitForPageLoadCall
  \/ IsRegisterLoginModalVisibleCall
  \/ ClickRegisterLoginCall
  \/ ValidateNameAndEmailCall
  \/ AddToCartCall
  \/ VerifyCartItemCall
  \/ NavigateCall

PageSpec == PageInit /\ [][PageNext]_vars

\* Calls of DataGenerator methods, in any order.
GeneratorInit == GeneratorStarts /\ PageIdle /\ FlowIdle /\ RetryIdle /\ RunnerIdle

GeneratorNext ==
  \/ GenerateRandomQuantityCall
  \/ GenerateUserDataCall
  \/ GenerateCreditCardCall
  \/ GenerateDateOfBirthCall
  \/ GenerateUniqueEmailCall

GeneratorSpec == GeneratorInit /\ [][GeneratorNext]_vars

\* ==================================================================
\* Properties
\* ==================================================================

Failures == {k \in 1 .. Len(invocations) : ~invocations[k].ok}

StrictlyIncreasing(s) == \A k \in 1 .. Len(s) - 1 : s[k] < s[k + 1]

IsPrefix(s, t) == Len(s) <= Len(t) /\ \A k \in 1 .. Len(s) : s[k] = t[k]

\* The stages of a sequence of statements, consecutive repetitions dropped.
RECURSIVE StagesOf(_)
StagesOf(statements) ==
  IF Len(statements) = 0 THEN <<>>
  ELSE LET before == StagesOf(SubSeq(statements, 1, Len(statements) - 1))
           stage == Flow[statements[Len(statements)]].stage
       IN IF Len(before) > 0 /\ before[Len(before)] = stage
            THEN before
            ELSE Append(before, stage)

\* C1 (RetrySpec). When the operation fails on its first k-1 invocations and
\* succeeds on the k-th, 1 <= k <= maxRetries, retryOperation returns that
\* success value, the operation has been invoked exactly k times and never
\* again after the success, and the k-1 waits between the attempts are
\* strictly increasing.
C1_SucceedsOnKthAttempt ==
  /\ \A k \in 1 .. Len(invocations) - 1 : ~invocations[k].ok
  /\ (Len(invocations) >= 1 /\ invocations[Len(invocations)].ok) =>
       LET k == Len(invocations) IN
         /\ k <= maxRetries
         /\ retryPc = "returned"
         /\ retryResult = invocations[k].value
         /\ retryThrown = Unassigned
         /\ Len(waits) = k - 1
         /\ StrictlyIncreasing(waits)

\* C1 witness: fails twice, then succeeds, with maxRetries = 3.
C1_FailsTwiceThenSucceeds ==
  /\ retryPc = "returned"
  /\ maxRetries = 3
  /\ Len(invocations) = 3
  /\ Failures = {1, 2}
  /\ retryResult = "value-b"
  /\ waits = <<1000, 2000>>

\* C2 (RetrySpec). With maxRetries >= 1 and an operation that fails on every
\* invocation, the operation is invoked exactly maxRetries times and
\* retryOperation then throws the error of the last invocation.
C2_ExhaustedRethrowsLastError ==
  maxRetries >= 1 =>
    /\ Len(invocations) <= maxRetries
    /\ retryPc = "thrown" =>
         /\ Len(invocations) = maxRetries
         /\ Failures = 1 .. maxRetries
         /\ retryThrown = invocations[maxRetries].value
         /\ retryResult = Unassigned
    /\ (Failures = 1 .. maxRetries /\ retryPc \notin {"loop", "throw"}) =>
         retryPc = "thrown"

\* C2 witness: three failures, the last with another error than the first.
C2_ThrowsAfterThreeFailures ==
  /\ retryPc = "thrown"
  /\ maxRetries = 3
  /\ Len(invocations) = 3
  /\ invocations[1].value = "TimeoutError"
  /\ invocations[3].value = "InteractionError"
  /\ retryThrown = "InteractionError"

\* C3 (RetrySpec), as claimed. The backoff grows exponentially: of any two
\* consecutive waits the later is at least twice the earlier.
C3_ExponentialBackoff ==
  \A k \in 1 .. Len(waits) - 1 : waits[k + 1] >= 2 * waits[k]

\* C4 (Spec). The flow visits its stages strictly in the order Home, Products,
\* ProductDetail, Cart, Login, SignUp, AccountCreated, Cart, Checkout, Payment,
\* OrderPlaced: the statements run in program order, each once, no statement
\* starts before every earlier expect has passed, and a test that passes has
\* visited every stage once and Cart twice.
ExpectedStages ==
  <<"Home", "Products", "ProductDetail", "Cart", "Login", "SignUp",
    "AccountCreated", "Cart", "Checkout", "Payment", "OrderPlaced">>

C4_StagesInOrder ==
  /\ \A p \in 1 .. Len(executed) : executed[p] = p
  /\ IsPrefix(StagesOf(executed), ExpectedStages)
  /\ \A p \in 1 .. Len(executed) :
       \A j \in 1 .. executed[p] - 1 : Flow[j].expect => j \in passedExpects
  /\ status = "passed" =>
       /\ StagesOf(executed) = ExpectedStages
       /\ Len(executed) = NumStatements

\* C4 witness: a test that ran to its end.
C4_FlowCompleted ==
  /\ status = "passed"
  /\ StagesOf(executed) = ExpectedStages
  /\ Cardinality({p \in 1 .. Len(executed) : Flow[executed[p]].page = "CartPage"}) = 7

\* C5 (Spec). Once a statement has failed (a rejected page-object call or a
\* failed expect), no later statement runs: the failed statement is the last
\* one started, the test is failed, and the payment form is never submitted
\* after an earlier failure.
C5_FailureAbortsTheRest ==
  /\ failure.at # 0 =>
       /\ status = "failed"
       /\ executed[Len(executed)] = failure.at
       /\ \A p \in 1 .. Len(executed) : executed[p] <= failure.at
  /\ paymentSubmitted => (failure.at = 0 \/ failure.at > FillPaymentFormAt)

\* C5 witness: the cart quantity expect failed; nothing ran after it.
C5_CartExpectFailed ==
  /\ status = "failed"
  /\ failure = [at |-> GetItemQuantityAt, kind |-> "AssertionFailure"]
  /\ Len(executed) = GetItemQuantityAt
  /\ ~paymentSubmitted

\* The page object that belongs to a stage.
OwnPage(stage) ==
  CASE stage = "Home" -> "HomePage"
    [] stage = "Products" -> "ProductsPage"
    [] stage = "ProductDetail" -> "ProductDetailPage"
    [] stage = "Cart" -> "CartPage"
    [] stage = "Login" -> "LoginPage"
    [] stage = "SignUp" -> "SignUpPage"
    [] stage = "AccountCreated" -> "AccountCreatedPage"
    [] stage = "Checkout" -> "CheckoutPage"
    [] stage = "Payment" -> "PaymentPage"
    [] OTHER -> "none"

\* The number of the stage visit statement k belongs to.
VisitOf(k) == 1 + Cardinality({j \in 2 .. k : Flow[j].stage # Flow[j - 1].stage})

\* C6 (Spec), as claimed. In every screen visit no action or query method of
\* the screen's page object runs before that page object's readiness gate has
\* returned in the same visit.
C6_GateBeforeAnyOtherMethod ==
  \A p \in 1 .. Len(executed) :
    LET k == executed[p] IN
      (Flow[k].page = OwnPage(Flow[k].stage) /\ Flow[k].kind \in {"action", "query"}) =>
        \E q \in 1 .. p - 1 :
          /\ Flow[executed[q]].kind = "gate"
          /\ Flow[executed[q]].page = Flow[k].page
          /\ VisitOf(executed[q]) = VisitOf(k)
          /\ executed[q] \in 1 .. k - 1

\* C7 (Spec). setQuantity(n) returns normally only if the value read back
\* after clear and fill equals n's decimal string, and fails with the mismatch
\* error otherwise; after a normal return, n in 1..20, the quantity field
\* holds exactly the string of n.
C7_SetQuantityReadsBack ==
  /\ setQuantityOutcome = "returned" =>
       /\ setQuantityArg \in 1 .. 20
       /\ setValue = toString(setQuantityArg)
       /\ quantityInput = setValue
       /\ parseInt(quantityInput) = setQuantityArg
       /\ Len(quantityInput) = IF setQuantityArg < 10 THEN 1 ELSE 2
       /\ failure.at # SetQuantityAt
  /\ setQuantityOutcome = "ValueMismatch" =>
       /\ setValue # toString(setQuantityArg)
       /\ failure = [at |-> SetQuantityAt, kind |-> "ValueMismatch"]
  /\ (setQuantityArg # 0 /\ setQuantityOutcome # "TimeoutError") =>
       (setQuantityOutcome = "returned" <=> setValue = toString(setQuantityArg))

\* C7 witness: setQuantity(20) returned with "20" in the field.
C7_TwentySet ==
  /\ setQuantityOutcome = "returned"
  /\ setQuantityArg = 20
  /\ quantityInput = <<"2", "0">>

\* C8 (Spec). The quantity is generated in the setup hook, lies in 1..20 and
\* is not changed afterwards: the value passed to setQuantity, the value the
\* field is compared with and the value the cart is compared with are all the
\* number the hook generated.
C8_QuantityFixedByHook ==
  /\ pc = 0 => randomQuantity = 0
  /\ pc >= 1 =>
       /\ randomQuantity \in 1 .. 20
       /\ randomQuantity = hookQuantity
  /\ setQuantityArg # 0 => setQuantityArg = hookQuantity
  /\ fieldExpected # 0 => fieldExpected = hookQuantity
  /\ cartExpected # 0 => cartExpected = hookQuantity

\* C8 witness: the three uses of the quantity have happened.
C8_QuantityUsedThreeTimes ==
  /\ hookQuantity = 20
  /\ setQuantityArg = 20
  /\ fieldExpected = 20
  /\ cartExpected = 20
  /\ GetItemQuantityAt \in passedExpects

C10_OneUnmodifiedUserRecord ==
  /\ generated <= 1
  /\ generated = 0 => userData = NoUser
  /\ generated = 1 => (userData = generatedUser /\ userData # NoUser)
  /\ status = "passed" => generated = 1
  /\ loginTyped # NoCredentials =>
       (loginTyped.name = generatedUser.name /\ loginTyped.email = generatedUser.email)
  /\ validateExpected # NoCredentials =>
       /\ validateExpected.name = generatedUser.name
       /\ validateExpected.email = generatedUser.email
  /\ signupArg # NoUser => signupArg = generatedUser
  /\ paymentArg # NoPayment =>
       /\ generated = 1
       /\ paymentArg.name = generatedUser.name
       /\ paymentArg.cardNumber = generatedUser.cardNumber
       /\ paymentArg.cvc = generatedUser.cvv
       /\ parseInt(paymentArg.month) = generatedUser.expiryMonth
       /\ parseInt(paymentArg.year) = generatedUser.expiryYear

\* C10 witness: the payment form was submitted with the generated record.
C10_PaymentFromGeneratedUser ==
  /\ paymentSubmitted
  /\ generatedUser.name = "Mary Smith"
  /\ loginTyped = [name |-> "Mary Smith", email |-> "mary_smith@example.com"]
  /\ signupArg.title = "Mrs"
  /\ paymentArg.name = "Mary Smith"
  /\ paymentArg.month = <<"1", "2">>

\* The clicks among the events of the last call.
Clicks == SelectSeq(events, LAMBDA e : e.kind = "click")

\* C11 (PageSpec). isRegisterLoginModalVisible() never throws; it returns
\* true when the modal node is visible and the URL is still the cart's, true
\* when there is no modal node but the URL contains "/login", and false when
\* the modal is not visible and the URL does not contain "/login".
C11_ModalOrLoginUrl ==
  call = "isRegisterLoginModalVisible" =>
    /\ outcome = "returned"
    /\ thrown = "none"
    /\ (env.locator = "visible" /\ env.url = CartUrl) => returnedBool
    /\ (env.locator = "absent" /\ env.url \in {LoginPath, LoginPath \o <<"?", "n">>})
         => returnedBool
    /\ (env.locator # "visible" /\ env.url \in {CartUrl, <<"/">>, SubSeq(LoginPath, 1, 5)})
         => ~returnedBool

\* C11 witness: no modal node, the page was redirected to the login URL.
C11_RedirectedToLogin ==
  /\ call = "isRegisterLoginModalVisible"
  /\ env.locator = "absent"
  /\ env.url = <<"/", "l", "o", "g", "i", "n">>
  /\ returnedBool

\* C12 (PageSpec). clickRegisterLogin() clicks at most one link per call and
\* exactly one when it returns: the modal-scoped link when that link is
\* visible, otherwise the page-level link; the click is its first effect and
\* the page-load wait starts only after it.
C12_OneLinkThenPageLoad ==
  call = "clickRegisterLogin" =>
    /\ Len(Clicks) <= 1
    /\ outcome = "returned" => Len(Clicks) = 1
    /\ Len(Clicks) = 0 => (events = <<>> /\ outcome = "thrown")
    /\ Len(Clicks) = 1 =>
         /\ events[1].kind = "click"
         /\ events[1].what = IF env.locator = "visible"
                               THEN "modalButton"
                               ELSE "registerLoginButton"
         /\ Len(events) >= 2
         /\ events[2] = [kind |-> "wait", what |-> "domcontentloaded"]

\* C12 witness: the modal link is visible and is the one clicked.
C12_ModalLinkClicked ==
  /\ call = "clickRegisterLogin"
  /\ env.locator = "visible"
  /\ outcome = "returned"
  /\ events[1] = [kind |-> "click", what |-> "modalButton"]
  /\ Len(events) = 3

\* C13 (PageSpec), as claimed. validateNameAndEmail never throws: it returns
\* true exactly when both fields equal the expected values and false in every
\* other case, a field that cannot be read included.
C13_ValidateNeverThrows ==
  call = "validateNameAndEmail" =>
    /\ outcome = "returned"
    /\ returnedBool = (env.nameField = env.expectedName
                       /\ env.emailField = env.expectedEmail)

\* C14 (PageSpec). isVisible(locator) never throws: it returns false when
\* the lookup fails and the engine's answer otherwise.
C14_IsVisibleNeverThrows ==
  call = "isVisible" =>
    /\ outcome = "returned"
    /\ thrown = "none"
    /\ env.locator = "failing" => ~returnedBool
    /\ env.locator = "visible" => returnedBool
    /\ env.locator \in {"hidden", "absent"} => ~returnedBool

\* C14 witness: the lookup failed and the call returned false.
C14_LookupFailureIsFalse ==
  /\ call = "isVisible"
  /\ env.locator = "failing"
  /\ outcome = "returned"
  /\ ~returnedBool

\* C15 (PageSpec), as claimed. getTextContent returns the node's text
\* trimmed of leading and trailing whitespace, or the empty text when the
\* node has none.
C15_ReturnsTrimmedText ==
  (call = "getTextContent" /\ outcome = "returned") =>
    returnedText = IF env.nodeText = NullText THEN <<>> ELSE trim(env.nodeText)

\* C15, amended. getTextContent returns only after the node was visible and
\* returns the node's text as it is, surrounding whitespace included, or the
\* empty text when the node has none; when the node does not become visible
\* it fails with a timeout.
C15_ReturnsTextUnchanged ==
  call = "getTextContent" =>
    /\ outcome = "returned" <=> env.locator = "visible"
    /\ outcome = "returned" =>
         returnedText = IF env.nodeText = NullText THEN <<>> ELSE env.nodeText
    /\ outcome = "thrown" => thrown = "TimeoutError"

\* C15 witness: a text with whitespace on both sides comes back as it is.
C15_WhitespaceKept ==
  /\ call = "getTextContent"
  /\ outcome = "returned"
  /\ env.nodeText = <<" ", "1", "2", " ">>
  /\ returnedText = <<" ", "1", "2", " ">>

\* C16 (PageSpec). waitForPageLoad(): a network-idle wait that times out is
\* logged and the call returns; a DOM-ready wait that fails makes the call
\* fail; the network-idle wait starts only after DOM-ready succeeded.
C16_NetworkIdleIsBestEffort ==
  call = "waitForPageLoad" =>
    /\ events[1] = [kind |-> "wait", what |-> "domcontentloaded"]
    /\ ~env.domReady =>
         /\ outcome = "thrown"
         /\ thrown = "TimeoutError"
         /\ Len(events) = 1
    /\ env.domReady =>
         /\ outcome = "returned"
         /\ thrown = "none"
         /\ events[2] = [kind |-> "wait", what |-> "networkidle"]
         /\ Len(events) = IF env.networkIdle THEN 2 ELSE 3
    /\ (env.domReady /\ ~env.networkIdle) => events[3].kind = "log"

\* C16 witness: DOM-ready succeeded, network idle timed out, the call returned.
C16_IdleTimeoutLogged ==
  /\ call = "waitForPageLoad"
  /\ env.domReady
  /\ ~env.networkIdle
  /\ outcome = "returned"
  /\ events[3].kind = "log"

\* C17 (PageSpec). isMobileViewport() returns true exactly when a viewport
\* is set and its width is below 768: 767 is mobile, 768 is not, and no
\* viewport is not mobile.
C17_MobileBelow768 ==
  call = "isMobileViewport" =>
    /\ outcome = "returned"
    /\ returnedBool <=> (env.viewport.set /\ env.viewport.width < 768)
    /\ (env.viewport.set /\ env.viewport.width = 767) => returnedBool
    /\ (env.viewport.set /\ env.viewport.width = 768) => ~returnedBool
    /\ ~env.viewport.set => ~returnedBool

\* C17 witness: a viewport 767 wide is mobile.
C17_Width767IsMobile ==
  /\ call = "isMobileViewport"
  /\ env.viewport = [set |-> TRUE, width |-> 767]
  /\ returnedBool

\* The bounds a call of generateRandomQuantity works with.
EffectiveMin == IF minArg = Omitted THEN 1 ELSE minArg
EffectiveMax == IF maxArg = Omitted THEN 20 ELSE maxArg

\* C18 (GeneratorSpec). generateRandomQuantity(min, max) with min <= max
\* returns an integer v with min <= v <= max; with the defaults v is in 1..20.
C18_QuantityWithinBounds ==
  /\ quantityOutcome = "returned" =>
       /\ EffectiveMin <= quantityReturned
       /\ quantityReturned <= EffectiveMax
  /\ (EffectiveMin <= EffectiveMax /\ quantityOutcome # "none") =>
       /\ quantityOutcome = "returned"
       /\ quantityThrown = "none"
  /\ (minArg = Omitted /\ maxArg = Omitted /\ quantityOutcome # "none") =>
       quantityReturned \in 1 .. 20

\* C18 witness: with the defaults both 1 and 20 have been returned.
C18_BothBoundsReturned ==
  /\ minArg = Omitted
  /\ maxArg = Omitted
  /\ sawMin
  /\ sawMax
  /\ quantityReturned = 20

C20_TitleFollowsGenre ==
  chosenGenre # "none" =>
    /\ chosenGenre \in {"male", "female"}
    /\ generatedRecord.title \in {"Mr", "Mrs"}
    /\ chosenGenre = "male" <=> generatedRecord.title = "Mr"
    /\ chosenGenre = "female" <=> generatedRecord.title = "Mrs"
    /\ chosenGenre = "male" => generatedRecord.firstName = "James"
    /\ chosenGenre = "female" => generatedRecord.firstName = "Mary"

\* C20 witness: a female token gave "Mrs" and a female first name.
C20_FemaleIsMrs ==
  /\ chosenGenre = "female"
  /\ generatedRecord.title = "Mrs"
  /\ generatedRecord.firstName = "Mary"


\* ==================================================================
\* Claims about the remaining DataGenerator methods
\* ==================================================================

\* C21: generateCreditCard() always returns expiryMonth in 1..12 and an
\* expiryYear greater than the year in which the card was generated.
C21_ExpiryYearAfterGenerationYear ==
  generatedCard # NoCard =>
    /\ generatedCard.expiryMonth \in 1 .. 12
    /\ generatedCard.expiryYear > generatedAt.year

\* The text is a non-empty run of decimal digits.
IsDecimal(text) == Len(text) > 0 /\ \A k \in 1 .. Len(text) : IsDigit(text[k])

\* The date the three strings of a generateDateOfBirth() result denote.
DateOf(birth) ==
  [year  |-> parseInt(birth.year),
   month |-> parseInt(birth.month) - 1,
   day   |-> parseInt(birth.day)]

\* C22: generateDateOfBirth() returns three decimal strings, the month
\* 1-based in 1..12, that denote a birth date whose age at the generation
\* instant is in 18..80 inclusive.
C22_AdultBirthDateAsStrings ==
  generatedBirth # NoBirth =>
    /\ IsDecimal(generatedBirth.day)
    /\ IsDecimal(generatedBirth.month)
    /\ IsDecimal(generatedBirth.year)
    /\ parseInt(generatedBirth.month) \in 1 .. 12
    /\ age(DateOf(generatedBirth), generatedAt) \in 18 .. 80

\* A person born in December who is 80 at the generation instant, and has
\* had this year's birthday.
C22_EightyBornInDecember ==
  /\ generatedBirth # NoBirth
  /\ generatedBirth.month = <<"1", "2">>
  /\ generatedAt.month = 11
  /\ age(DateOf(generatedBirth), generatedAt) = 80
  /\ parseInt(generatedBirth.year) = generatedAt.year - 80

\* C23: any two calls of generateUniqueEmail(), also within the same
\* millisecond, return different addresses.
C23_AddressesPairwiseDifferent ==
  \A i, j \in 1 .. Len(issuedEmails) :
    i # j => issuedEmails[i] # issuedEmails[j]

\* ==================================================================
\* Claims about further page-object methods
\* ==================================================================

\* The positions of the trace at which the event occurs.
PositionsOf(event) == {k \in 1 .. Len(events) : events[k] = event}

\* C24: addToCart() returns normally only after the add-to-cart click was
\* performed and the success modal then became visible; when the modal does
\* not become visible the call fails with a timeout error.
C24_ReturnsAfterClickAndModal ==
  call = "addToCart" =>
    /\ outcome = "returned" =>
         /\ env.modalKind = "success"
         /\ \E c \in PositionsOf(Click("addToCartButton")) :
              \E w \in PositionsOf(Wait("successModal")) : c < w
    /\ env.modalKind = "none" => outcome = "thrown" /\ thrown = "TimeoutError"

\* The button was scrolled to and clicked, the modal came, the call returned.
C24_ReturnedWithModal ==
  /\ call = "addToCart"
  /\ env.locator = "visible"
  /\ env.modalKind = "success"
  /\ events = <<Scroll("addToCartButton"), Click("addToCartButton"),
                Wait("successModal")>>
  /\ outcome = "returned"

\* The first cart item's quantity can be read and is the expected one.
QuantityAsExpected ==
  /\ env.locator = "visible"
  /\ parseInt(env.nodeText) = env.expectedQuantity

\* No name was asked for, or the first item's name can be read and contains it.
NameAsExpected ==
  env.expectedItem # NoName =>
    \/ env.expectedItem = <<>>
    \/ env.nameNode = "visible" /\ includes(env.itemName, env.expectedItem)

\* C26: verifyCartItem never throws; it returns true exactly when the first
\* item's quantity equals expectedQuantity and, if a name was given, the
\* item's name contains it; a mismatch or a failed read yields false.
C26_VerifyCartItemIsABoolean ==
  call = "verifyCartItem" =>
    /\ outcome = "returned"
    /\ returnedBool = (QuantityAsExpected /\ NameAsExpected)

\* The quantity matches but the name link cannot be read: false, not an error.
C26_NameUnreadableIsFalse ==
  /\ call = "verifyCartItem"
  /\ QuantityAsExpected
  /\ env.expectedItem = <<"T", "o", "p">>
  /\ env.nameNode = "absent"
  /\ outcome = "returned"
  /\ returnedBool = FALSE

\* C29: navigateToProducts() and navigateToCart(): on a mobile viewport the
\* menu toggle is clicked, only if it is visible, before the navigation link
\* is clicked; on a non-mobile viewport the toggle is never clicked; the link
\* is clicked at most once, exactly once in a call that returns, and the
\* page-load wait follows the click.
C29_MenuThenLinkThenPageLoad ==
  call = "navigateTo" =>
    LET toggles == PositionsOf(Click("mobileMenuToggle"))
        links == PositionsOf(Click(env.link))
        mobile == env.viewport.set /\ env.viewport.width < 768
    IN /\ Cardinality(toggles) = (IF mobile /\ env.locator = "visible" THEN 1 ELSE 0)
       /\ \A t \in toggles : \A l \in links : t < l
       /\ Cardinality(links) <= 1
       /\ outcome = "returned" => Cardinality(links) = 1
       /\ \A l \in links :
            /\ Len(events) > l
            /\ events[l + 1] = Wait("domcontentloaded")
       /\ \A k \in 1 .. Len(events) :
            events[k].kind = "click" => events[k].what \in {"mobileMenuToggle", env.link}

\* The cart link on the 393-wide project: toggle, pause, scroll, link, load.
C29_MobileCartNavigation ==
  /\ call = "navigateTo"
  /\ env.link = "cartLink"
  /\ env.viewport = [set |-> TRUE, width |-> 393]
  /\ env.locator = "visible"
  /\ outcome = "returned"
  /\ events = <<Click("mobileMenuToggle"), Wait("500ms"), Scroll("cartLink"),
                Click("cartLink"), Wait("domcontentloaded"), Wait("networkidle")>>

\* C30: isRegisterLoginModalVisible() returns true only when a register/login
\* prompt is shown, the register/login modal or the login page: a visible
\* add-to-cart success modal alone, with no "/login" in the URL, never makes
\* it return true.
C30_TrueOnlyForRegisterLoginPrompt ==
  (call = "isRegisterLoginModalVisible" /\ returnedBool) =>
    \/ env.modalKind = "registerLogin" /\ env.locator = "visible"
    \/ includes(env.url, <<"/", "l", "o", "g", "i", "n">>)

\* ==================================================================
\* Claims about the run configuration and retryOperation
\* ==================================================================

\* C25: a failed test is retried in CI only: at most 2 retries (3 attempts)
\* with CI set, and none (a single attempt) without it.
C25_RetriedInCIOnly ==
  \A i \in Instances : attempts[i] <= (IF ci THEN 2 ELSE 0) + 1

\* The failed attempts that are not the last one the call may make.
FailuresBeforeLast == {i \in Failures : i < maxRetries}

\* C27: retryOperation backs off linearly: the wait after the i-th failed
\* attempt (1-based), i < maxRetries, is exactly i x 1000 ms and comes before
\* attempt i + 1; after the maxRetries-th failed attempt there is no wait, so
\* a call that attempts anything waits at most maxRetries - 1 times.
C27_LinearBackoff ==
  /\ \A i \in 1 .. Len(waits) : waits[i] = i * 1000 /\ i \in FailuresBeforeLast
  /\ Len(waits) = Cardinality(FailuresBeforeLast) - (IF retryPc = "wait" THEN 1 ELSE 0)
  /\ Len(invocations) <= Len(waits) + 1
  /\ Len(invocations) >= 1 => Len(waits) <= maxRetries - 1
  /\ (retryPc = "thrown" /\ maxRetries >= 1) => Len(waits) = maxRetries - 1

\* Four failures with maxRetries = 4: three waits, none after the fourth.
C27_ThreeWaitsForFourFailures ==
  /\ retryPc = "thrown"
  /\ maxRetries = 4
  /\ Failures = 1 .. 4
  /\ waits = <<1000, 2000, 3000>>

\* C28: for every maxRetries, 0 and negative values included, retryOperation
\* invokes the operation at least once, and what it throws is an error one of
\* its own invocations raised, never an unassigned value.
C28_InvokesOnceAndThrowsOwnError ==
  /\ retryPc \in {"returned", "thrown"} => Len(invocations) >= 1
  /\ retryPc = "thrown" =>
       /\ retryThrown # Unassigned
       /\ \E k \in Failures : invocations[k].value = retryThrown
====
